---- MODULE Spec2Model ----
(***************************************************************************)
(* Hospital appointment scheduling (backend/api).                           *)
(*                                                                          *)
(* The state is the content of the Hospital, Department, Doctor, Patient,   *)
(* DoctorAvailability and Appointment tables declared in                    *)
(* backend/api/models.py, together with the HTTP requests served by the     *)
(* appointment_book view of backend/api/views.py.  The operations are the   *)
(* record operations every models.Model subclass has (create, save,         *)
(* delete), subject to the constraints and the on_delete rules the schema   *)
(* declares, and the view.                                                  *)
(***************************************************************************)
EXTENDS Integers, FiniteSets

VARIABLES availabilities, appointments, result, pc, request, response,
          hospitals, departments, doctors, patients, collector

(***************************************************************************)
(* The directory: which Hospital rows exist, and the hospital of every      *)
(* Department, Doctor and Patient row.                                      *)
(***************************************************************************)
dirvars == <<hospitals, departments, doctors, patients>>

vars == <<availabilities, appointments, result, pc, request, response, dirvars, collector>>

(***************************************************************************)
(* Bounds of the model.                                                     *)
(***************************************************************************)
MaxTime == 1
MaxAppts == 2
MaxRules == 1
MaxCapacity == 2
MaxWeekday == 1
NumProcs == 2
MaxRefs == 1
MaxDeletes == 1

HospitalIds == {"h1", "h2"}
DepartmentIds == {"dep1"}
DoctorIds == {"d1", "d2"}
PatientIds == {"p1"}
Null == "null"

Doctors == {"d1"}
Dates == {0}
Times == 0..MaxTime
Weekdays == 0..MaxWeekday
CapacityInputs == (-1)..MaxCapacity
AppIds == 1..MaxAppts
Procs == 1..NumProcs
Deleters == 1..MaxDeletes

(***************************************************************************)
(* Appointment.Status, and the statuses that count against capacity.        *)
(***************************************************************************)
Status == {"pending", "confirmed", "cancelled", "completed", "no_show"}

ActiveStatus == {"pending", "confirmed"}

(***************************************************************************)
(* Calendar: a datetime is a date and a time of day; the weekday of a date. *)
(***************************************************************************)
DateTime(date, time) == date * (MaxTime + 1) + time

Weekday(date) == date % 7

DateTimes == {DateTime(d, t) : d \in Dates, t \in Times}

(***************************************************************************)
(* Appointment.Meta.constraints: CheckConstraint(end_at > start_at).        *)
(***************************************************************************)
appointment_end_after_start_Weak(start_at, end_at) == end_at >= start_at

appointment_end_after_start(start_at, end_at) == end_at > start_at

(***************************************************************************)
(* PositiveSmallIntegerField: the column accepts 0 and above.               *)
(***************************************************************************)
PositiveSmallInteger(n) == n >= 0

(***************************************************************************)
(* DoctorAvailability.Meta.unique_together.                                 *)
(***************************************************************************)
AvailabilityKey(r) == <<r.doctor, r.weekday, r.start_time, r.end_time>>

AvailabilityUnique(row, others) == \A o \in others : AvailabilityKey(o) # AvailabilityKey(row)

(***************************************************************************)
(* The rows of the two tables, and the rows the operations are tried with:  *)
(* for the scheduling specifications every row of hospital h1, doctor d1    *)
(* and patient p1, for the directory specification every combination of     *)
(* foreign keys on one slot.                                                *)
(***************************************************************************)
AvailabilityRows ==
    [doctor : DoctorIds, weekday : Weekdays, start_time : Times, end_time : Times,
     capacity : CapacityInputs, is_active : BOOLEAN]

AppointmentRows ==
    [hospital : HospitalIds, patient : PatientIds, doctor : DoctorIds,
     department : DepartmentIds \cup {Null},
     start_at : DateTimes, end_at : DateTimes, status : Status]

SchedulingAvailabilityRows == {r \in AvailabilityRows : r.doctor \in Doctors}

ActiveAvailabilityRows == {r \in SchedulingAvailabilityRows : r.weekday = 0 /\ r.is_active}

SchedulingAppointmentRows ==
    {r \in AppointmentRows :
        r.hospital = "h1" /\ r.patient = "p1" /\ r.doctor \in Doctors /\ r.department = Null}

DirectoryAvailabilityRows ==
    {r \in AvailabilityRows :
        /\ r.weekday = 0
        /\ r.start_time = 0
        /\ r.end_time = MaxTime
        /\ r.capacity = 1
        /\ r.is_active}

DirectoryAppointmentRows ==
    {r \in AppointmentRows : r.start_at = 0 /\ r.end_at = MaxTime /\ r.status = "pending"}

(***************************************************************************)
(* ForeignKey: the row referred to must exist.                              *)
(***************************************************************************)
AppointmentKeysExist(row) ==
    /\ row.hospital \in hospitals
    /\ row.patient \in DOMAIN patients
    /\ row.doctor \in DOMAIN doctors
    /\ row.department \in DOMAIN departments \cup {Null}

AvailabilityKeysExist(row) == row.doctor \in DOMAIN doctors

(***************************************************************************)
(* The slot key of an appointment, the slot keys an availability rule       *)
(* yields on the calendar, and the number of active appointments of a key.  *)
(***************************************************************************)
SlotKey(row) == [doctor |-> row.doctor, start_at |-> row.start_at, end_at |-> row.end_at]

SlotKeys(r) ==
    IF r.is_active
    THEN {[doctor |-> r.doctor,
           start_at |-> DateTime(d, r.start_time),
           end_at |-> DateTime(d, r.end_time)] : d \in {x \in Dates : Weekday(x) = r.weekday}}
    ELSE {}

ActiveCount(rows, k) ==
    Cardinality({a \in DOMAIN rows : SlotKey(rows[a]) = k /\ rows[a].status \in ActiveStatus})

RequestKeys ==
    {k \in [doctor : Doctors, start_at : DateTimes, end_at : DateTimes] : k.start_at < k.end_at}

(***************************************************************************)
(* The outcome of the last record operation: the operation, the row it      *)
(* addressed, that row's content before it, the values it tried to store    *)
(* (for a delete: the number of rows deleted) and whether the database      *)
(* accepted it.                                                             *)
(***************************************************************************)
NoRow == [status |-> "absent"]

Outcome(op, id, prev, lower, upper, outcome) ==
    [op |-> op, id |-> id, prev |-> prev, lower |-> lower, upper |-> upper, outcome |-> outcome]

(***************************************************************************)
(* A delete() in progress: the query it is to run next (stage), and the     *)
(* rows its collection phase has fetched so far, to be deleted by primary   *)
(* key (hs, deps, drs, pts) or to have their department set to null (apps). *)
(***************************************************************************)
NoCollector ==
    [op |-> "none", stage |-> "none",
     hs |-> {}, deps |-> {}, drs |-> {}, pts |-> {}, apps |-> {}]

(***************************************************************************)
(* UUIDField(primary_key=True, default=uuid.uuid4): a new row gets a key no *)
(* row has had before.  Keys are opaque, so a key is as good as new when no *)
(* row and no delete in progress holds it.                                  *)
(***************************************************************************)
Held(field) == UNION {collector[q][field] : q \in Deleters}

FreshAppointmentIds == AppIds \ (DOMAIN appointments \cup Held("apps"))

FreshHospital(h) == h \notin hospitals \cup Held("hs")

FreshDepartment(d) == d \notin DOMAIN departments \cup Held("deps")

FreshDoctor(d) == d \notin DOMAIN doctors \cup Held("drs")

FreshPatient(p) == p \notin DOMAIN patients \cup Held("pts")

Init ==
    /\ availabilities = {}
    /\ appointments = [a \in {} |-> NoRow]
    /\ result = Outcome("none", 0, NoRow, 0, 0, "ok")
    /\ pc = [p \in Procs |-> "idle"]
    /\ request = [p \in Procs |-> NoRow]
    /\ response = [p \in Procs |-> "none"]
    /\ hospitals = {}
    /\ departments = [x \in {} |-> "none"]
    /\ doctors = [x \in {} |-> "none"]
    /\ patients = [x \in {} |-> "none"]
    /\ collector = [q \in Deleters |-> NoCollector]

(***************************************************************************)
(* The database once hospital h1, its doctor d1 and its patient p1 have     *)
(* been created.                                                            *)
(***************************************************************************)
InitScheduling ==
    /\ availabilities = {}
    /\ appointments = [a \in {} |-> NoRow]
    /\ result = Outcome("none", 0, NoRow, 0, 0, "ok")
    /\ pc = [p \in Procs |-> "idle"]
    /\ request = [p \in Procs |-> NoRow]
    /\ response = [p \in Procs |-> "none"]
    /\ hospitals = {"h1"}
    /\ departments = [x \in {} |-> "none"]
    /\ doctors = [x \in {"d1"} |-> "h1"]
    /\ patients = [x \in {"p1"} |-> "h1"]
    /\ collector = [q \in Deleters |-> NoCollector]

(***************************************************************************)
(* DoctorAvailability: create, save, delete.                                *)
(***************************************************************************)
CreateAvailability(row) ==
    /\ Cardinality(availabilities) < MaxRules
    /\ IF /\ PositiveSmallInteger(row.capacity)
          /\ AvailabilityUnique(row, availabilities)
          /\ AvailabilityKeysExist(row)
       THEN /\ availabilities' = availabilities \cup {row}
            /\ result' = Outcome("create_availability", 0, NoRow, row.start_time, row.end_time, "ok")
       ELSE /\ availabilities' = availabilities
            /\ result' = Outcome("create_availability", 0, NoRow, row.start_time, row.end_time,
                                 "IntegrityError")
    /\ UNCHANGED <<appointments, pc, request, response, dirvars, collector>>

UpdateAvailability(old, row) ==
    /\ old \in availabilities
    /\ IF /\ PositiveSmallInteger(row.capacity)
          /\ AvailabilityUnique(row, availabilities \ {old})
          /\ AvailabilityKeysExist(row)
       THEN /\ availabilities' = (availabilities \ {old}) \cup {row}
            /\ result' = Outcome("update_availability", 0, NoRow, row.start_time, row.end_time, "ok")
       ELSE /\ availabilities' = availabilities
            /\ result' = Outcome("update_availability", 0, NoRow, row.start_time, row.end_time,
                                 "IntegrityError")
    /\ UNCHANGED <<appointments, pc, request, response, dirvars, collector>>

DeleteAvailability(old) ==
    /\ old \in availabilities
    /\ availabilities' = availabilities \ {old}
    /\ result' = Outcome("delete_availability", 0, NoRow, old.start_time, old.end_time, "ok")
    /\ UNCHANGED <<appointments, pc, request, response, dirvars, collector>>

(***************************************************************************)
(* Appointment: create, save, delete.                                       *)
(***************************************************************************)
CreateAppointment(row) ==
    /\ FreshAppointmentIds # {}
    /\ LET id == CHOOSE i \in FreshAppointmentIds : \A j \in FreshAppointmentIds : i <= j
       IN IF appointment_end_after_start(row.start_at, row.end_at) /\ AppointmentKeysExist(row)
          THEN /\ appointments' = [a \in DOMAIN appointments \cup {id} |->
                                      IF a = id THEN row ELSE appointments[a]]
               /\ result' = Outcome("create_appointment", id, NoRow, row.start_at, row.end_at, "ok")
          ELSE /\ appointments' = appointments
               /\ result' = Outcome("create_appointment", 0, NoRow, row.start_at, row.end_at,
                                    "IntegrityError")
    /\ UNCHANGED <<availabilities, pc, request, response, dirvars, collector>>

UpdateAppointment(id, row) ==
    /\ id \in DOMAIN appointments
    /\ IF appointment_end_after_start(row.start_at, row.end_at) /\ AppointmentKeysExist(row)
       THEN /\ appointments' = [appointments EXCEPT ![id] = row]
            /\ result' = Outcome("update_appointment", id, appointments[id],
                                 row.start_at, row.end_at, "ok")
       ELSE /\ appointments' = appointments
            /\ result' = Outcome("update_appointment", id, appointments[id],
                                 row.start_at, row.end_at, "IntegrityError")
    /\ UNCHANGED <<availabilities, pc, request, response, dirvars, collector>>

DeleteAppointment(id) ==
    /\ id \in DOMAIN appointments
    /\ appointments' = [a \in DOMAIN appointments \ {id} |-> appointments[a]]
    /\ result' = Outcome("delete_appointment", id, appointments[id],
                         appointments[id].start_at, appointments[id].end_at, "ok")
    /\ UNCHANGED <<availabilities, pc, request, response, dirvars, collector>>

(***************************************************************************)
(* views.appointment_book: answers every request with the same page and     *)
(* reads or writes no record.                                               *)
(***************************************************************************)
appointment_book(p, k) ==
    /\ pc[p] = "idle"
    /\ pc' = [pc EXCEPT ![p] = "done"]
    /\ request' = [request EXCEPT ![p] = k]
    /\ response' = [response EXCEPT ![p] = "Book an appointment"]
    /\ UNCHANGED <<availabilities, appointments, result, dirvars, collector>>

(***************************************************************************)
(* on_delete=models.CASCADE: the rows a deletion takes with it.             *)
(***************************************************************************)
Insert(f, id, row) == [x \in DOMAIN f \cup {id} |-> IF x = id THEN row ELSE f[x]]

Remove(f, ids) == [x \in DOMAIN f \ ids |-> f[x]]

OfHospital(table, hs) == {x \in DOMAIN table : table[x] \in hs}

AppointmentsOfHospital(rows, hs) == {a \in DOMAIN rows : rows[a].hospital \in hs}

AppointmentsOfPatient(rows, ps) == {a \in DOMAIN rows : rows[a].patient \in ps}

AppointmentsOfDoctor_NoCascade(rows, ds) == {}

AppointmentsOfDoctor(rows, ds) == {a \in DOMAIN rows : rows[a].doctor \in ds}

AvailabilitiesOfDoctor(rows, ds) == {r \in rows : r.doctor \in ds}

(***************************************************************************)
(* on_delete=models.SET_NULL: Appointment.department of the rows given.     *)
(***************************************************************************)
SetNullDepartment(rows, ids) ==
    [a \in DOMAIN rows |-> IF a \in ids THEN [rows[a] EXCEPT !.department = Null] ELSE rows[a]]

(***************************************************************************)
(* The foreign key constraints of the database, checked when a transaction *)
(* commits.                                                                 *)
(***************************************************************************)
ForeignKeysHold(hs, deps, drs, pts, apps, avs) ==
    /\ \A d \in DOMAIN deps : deps[d] \in hs
    /\ \A d \in DOMAIN drs : drs[d] \in hs
    /\ \A p \in DOMAIN pts : pts[p] \in hs
    /\ \A a \in DOMAIN apps :
           /\ apps[a].hospital \in hs
           /\ apps[a].patient \in DOMAIN pts
           /\ apps[a].doctor \in DOMAIN drs
           /\ apps[a].department \in DOMAIN deps \cup {Null}
    /\ \A r \in avs : r.doctor \in DOMAIN drs

(***************************************************************************)
(* Model.delete() of a Hospital, Department, Doctor or Patient, first       *)
(* phase (Collector.collect).  It runs outside any transaction, one SELECT  *)
(* at a time, depth first in the order the relations are declared, and      *)
(* other requests are served between the queries.  For a hospital: its      *)
(* departments; when there are any, the appointments that refer to them     *)
(* (their department is to be set to null); its doctors; its patients.      *)
(* For a department: the appointments that refer to it.  The appointments   *)
(* and availability rules to delete are not fetched: they are deleted by    *)
(* filter in the second phase.                                              *)
(***************************************************************************)
Collect(q, c) ==
    /\ collector' = [collector EXCEPT ![q] = c]
    /\ UNCHANGED <<availabilities, appointments, result, pc, request, response, dirvars>>

Start(q, op, stage, hs, deps, drs, pts) ==
    /\ collector[q].op = "none"
    /\ Collect(q, [op |-> op, stage |-> stage,
                   hs |-> hs, deps |-> deps, drs |-> drs, pts |-> pts, apps |-> {}])

CollectDepartments(q) ==
    /\ collector[q].stage = "departments"
    /\ LET deps == OfHospital(departments, collector[q].hs)
       IN Collect(q, [collector[q] EXCEPT
                         !.deps = deps,
                         !.stage = IF deps = {} THEN "doctors" ELSE "appointments"])

CollectAppointments(q) ==
    /\ collector[q].stage = "appointments"
    /\ Collect(q, [collector[q] EXCEPT
                      !.apps = {a \in DOMAIN appointments :
                                   appointments[a].department \in collector[q].deps},
                      !.stage = IF collector[q].hs = {} THEN "delete" ELSE "doctors"])

CollectDoctors(q) ==
    /\ collector[q].stage = "doctors"
    /\ Collect(q, [collector[q] EXCEPT
                      !.drs = OfHospital(doctors, collector[q].hs),
                      !.stage = "patients"])

CollectPatients(q) ==
    /\ collector[q].stage = "patients"
    /\ Collect(q, [collector[q] EXCEPT
                      !.pts = OfHospital(patients, collector[q].hs),
                      !.stage = "delete"])

(***************************************************************************)
(* Model.delete(), second phase (Collector.delete): in one transaction,     *)
(* deletes the appointments and availability rules that refer to a          *)
(* collected row, sets the department of appointments to null (of the rows  *)
(* fetched in the first phase, or of the rows that refer to a collected     *)
(* department now, depending on the version of the framework), and deletes  *)
(* the collected rows by primary key.  A row left referring to a deleted    *)
(* row fails the commit: IntegrityError, nothing is deleted.  Returns the   *)
(* number of rows deleted.                                                  *)
(***************************************************************************)
Delete(q) ==
    /\ collector[q].stage = "delete"
    /\ \E lazy_sub_objs \in BOOLEAN :
           LET c == collector[q]
               deadAppointments ==
                   AppointmentsOfHospital(appointments, c.hs)
                       \cup AppointmentsOfDoctor(appointments, c.drs)
                       \cup AppointmentsOfPatient(appointments, c.pts)
               deadAvailabilities == AvailabilitiesOfDoctor(availabilities, c.drs)
               kept == Remove(appointments, deadAppointments)
               nulled ==
                   IF lazy_sub_objs
                   THEN {a \in DOMAIN kept : kept[a].department \in c.deps}
                   ELSE c.apps \cap DOMAIN kept
               newHospitals == hospitals \ c.hs
               newDepartments == Remove(departments, c.deps)
               newDoctors == Remove(doctors, c.drs)
               newPatients == Remove(patients, c.pts)
               newAppointments == SetNullDepartment(kept, nulled)
               newAvailabilities == availabilities \ deadAvailabilities
               count ==
                   Cardinality(c.hs \cap hospitals)
                       + Cardinality(c.deps \cap DOMAIN departments)
                       + Cardinality(c.drs \cap DOMAIN doctors)
                       + Cardinality(c.pts \cap DOMAIN patients)
                       + Cardinality(deadAppointments)
                       + Cardinality(deadAvailabilities)
           IN IF ForeignKeysHold(newHospitals, newDepartments, newDoctors, newPatients,
                                 newAppointments, newAvailabilities)
              THEN /\ hospitals' = newHospitals
                   /\ departments' = newDepartments
                   /\ doctors' = newDoctors
                   /\ patients' = newPatients
                   /\ appointments' = newAppointments
                   /\ availabilities' = newAvailabilities
                   /\ result' = Outcome(c.op, 0, NoRow, count, 0, "ok")
              ELSE /\ result' = Outcome(c.op, 0, NoRow, 0, 0, "IntegrityError")
                   /\ UNCHANGED <<availabilities, appointments, dirvars>>
    /\ collector' = [collector EXCEPT ![q] = NoCollector]
    /\ UNCHANGED <<pc, request, response>>

Rejected(op) ==
    /\ result' = Outcome(op, 0, NoRow, 0, 0, "IntegrityError")
    /\ UNCHANGED <<availabilities, appointments, pc, request, response, dirvars, collector>>

Accepted(op) ==
    /\ result' = Outcome(op, 0, NoRow, 0, 0, "ok")
    /\ UNCHANGED <<availabilities, appointments, pc, request, response, collector>>

(***************************************************************************)
(* Hospital, Department, Doctor, Patient: create, save, delete.             *)
(***************************************************************************)
CreateHospital(h) ==
    /\ FreshHospital(h)
    /\ hospitals' = hospitals \cup {h}
    /\ Accepted("create_hospital")
    /\ UNCHANGED <<departments, doctors, patients>>

CreateDepartment(d, h) ==
    /\ FreshDepartment(d)
    /\ IF h \in hospitals
       THEN /\ departments' = Insert(departments, d, h)
            /\ Accepted("create_department")
            /\ UNCHANGED <<hospitals, doctors, patients>>
       ELSE Rejected("create_department")

CreateDoctor(d, h) ==
    /\ FreshDoctor(d)
    /\ IF h \in hospitals
       THEN /\ doctors' = Insert(doctors, d, h)
            /\ Accepted("create_doctor")
            /\ UNCHANGED <<hospitals, departments, patients>>
       ELSE Rejected("create_doctor")

CreatePatient(p, h) ==
    /\ FreshPatient(p)
    /\ IF h \in hospitals
       THEN /\ patients' = Insert(patients, p, h)
            /\ Accepted("create_patient")
            /\ UNCHANGED <<hospitals, departments, doctors>>
       ELSE Rejected("create_patient")

UpdateDepartment(d, h) ==
    /\ d \in DOMAIN departments
    /\ IF h \in hospitals
       THEN /\ departments' = [departments EXCEPT ![d] = h]
            /\ Accepted("update_department")
            /\ UNCHANGED <<hospitals, doctors, patients>>
       ELSE Rejected("update_department")

UpdateDoctor(d, h) ==
    /\ d \in DOMAIN doctors
    /\ IF h \in hospitals
       THEN /\ doctors' = [doctors EXCEPT ![d] = h]
            /\ Accepted("update_doctor")
            /\ UNCHANGED <<hospitals, departments, patients>>
       ELSE Rejected("update_doctor")

UpdatePatient(p, h) ==
    /\ p \in DOMAIN patients
    /\ IF h \in hospitals
       THEN /\ patients' = [patients EXCEPT ![p] = h]
            /\ Accepted("update_patient")
            /\ UNCHANGED <<hospitals, departments, doctors>>
       ELSE Rejected("update_patient")

(***************************************************************************)
(* delete() called on a stored row: starts the collection.                  *)
(***************************************************************************)
DeleteHospital(q, h) ==
    h \in hospitals /\ Start(q, "delete_hospital", "departments", {h}, {}, {}, {})

DeleteDepartment(q, d) ==
    d \in DOMAIN departments /\ Start(q, "delete_department", "appointments", {}, {d}, {}, {})

DeleteDoctor(q, d) ==
    d \in DOMAIN doctors /\ Start(q, "delete_doctor", "delete", {}, {}, {d}, {})

DeletePatient(q, p) ==
    p \in DOMAIN patients /\ Start(q, "delete_patient", "delete", {}, {}, {}, {p})

CollectStep ==
    \/ \E q \in Deleters : CollectDepartments(q)
    \/ \E q \in Deleters : CollectAppointments(q)
    \/ \E q \in Deleters : CollectDoctors(q)
    \/ \E q \in Deleters : CollectPatients(q)

(***************************************************************************)
(* The scheduling specifications: hospital h1 with doctor d1 and patient    *)
(* p1; the availability rules and appointments of d1, the booking requests, *)
(* and the creation and deletion of h1, d1 and p1.                          *)
(***************************************************************************)
AvailabilityStep(rows) ==
    \/ \E row \in rows : CreateAvailability(row)
    \/ \E old \in availabilities : \E row \in rows : UpdateAvailability(old, row)
    \/ \E old \in availabilities : DeleteAvailability(old)

AppointmentStep ==
    \/ \E row \in SchedulingAppointmentRows : CreateAppointment(row)
    \/ \E id \in AppIds : \E row \in SchedulingAppointmentRows : UpdateAppointment(id, row)
    \/ \E id \in AppIds : DeleteAppointment(id)

BookStep == \E p \in Procs : \E k \in RequestKeys : appointment_book(p, k)

CascadeStep ==
    \/ \E q \in Deleters : \E h \in HospitalIds : DeleteHospital(q, h)
    \/ \E q \in Deleters : \E d \in DoctorIds : DeleteDoctor(q, d)
    \/ \E q \in Deleters : \E p \in PatientIds : DeletePatient(q, p)
    \/ \E q \in Deleters : CollectDepartments(q)
    \/ \E q \in Deleters : CollectDoctors(q)
    \/ \E q \in Deleters : CollectPatients(q)
    \/ \E q \in Deleters : Delete(q)

SetupStep ==
    \/ \E h \in {"h1"} : CreateHospital(h)
    \/ \E d \in Doctors : \E h \in HospitalIds : CreateDoctor(d, h)
    \/ \E p \in PatientIds : \E h \in HospitalIds : CreatePatient(p, h)

Next ==
    \/ SetupStep
    \/ AvailabilityStep(ActiveAvailabilityRows)
    \/ AppointmentStep
    \/ BookStep
    \/ CascadeStep

Spec == Init /\ [][Next]_vars

NextAppointment == AppointmentStep

SpecAppointment == InitScheduling /\ [][NextAppointment]_vars

NextBooking == AvailabilityStep(SchedulingAvailabilityRows) \/ BookStep

SpecBooking == InitScheduling /\ [][NextBooking]_vars

(***************************************************************************)
(* The directory specification: from the empty database, every create,      *)
(* save and delete of the six tables, with every combination of foreign     *)
(* keys.                                                                    *)
(***************************************************************************)
NextDirectory ==
    \/ \E h \in HospitalIds : CreateHospital(h)
    \/ \E d \in DepartmentIds : \E h \in HospitalIds : CreateDepartment(d, h)
    \/ \E d \in DoctorIds : \E h \in HospitalIds : CreateDoctor(d, h)
    \/ \E p \in PatientIds : \E h \in HospitalIds : CreatePatient(p, h)
    \/ \E d \in DepartmentIds : \E h \in HospitalIds : UpdateDepartment(d, h)
    \/ \E d \in DoctorIds : \E h \in HospitalIds : UpdateDoctor(d, h)
    \/ \E p \in PatientIds : \E h \in HospitalIds : UpdatePatient(p, h)
    \/ \E q \in Deleters : \E h \in HospitalIds : DeleteHospital(q, h)
    \/ \E q \in Deleters : \E d \in DepartmentIds : DeleteDepartment(q, d)
    \/ \E q \in Deleters : \E d \in DoctorIds : DeleteDoctor(q, d)
    \/ \E q \in Deleters : \E p \in PatientIds : DeletePatient(q, p)
    \/ CollectStep
    \/ \E q \in Deleters : Delete(q)
    \/ \E row \in DirectoryAppointmentRows :
           Cardinality(DOMAIN appointments) < MaxRefs /\ CreateAppointment(row)
    \/ \E id \in AppIds : \E row \in DirectoryAppointmentRows : UpdateAppointment(id, row)
    \/ \E id \in AppIds : DeleteAppointment(id)
    \/ \E row \in DirectoryAvailabilityRows : CreateAvailability(row)
    \/ \E old \in availabilities :
           \E row \in DirectoryAvailabilityRows : UpdateAvailability(old, row)
    \/ \E old \in availabilities : DeleteAvailability(old)

SpecDirectory == Init /\ [][NextDirectory]_vars

(***************************************************************************)
(* The typed outcomes a booking attempt may report.                         *)
(***************************************************************************)
BookingErrors ==
    {"NotFoundError", "InvalidRangeError", "AmbiguousDoctorError", "SlotNotAvailableError",
     "SlotFullError", "BookingTimeoutError", "InvariantViolationError"}

(***************************************************************************)
(* C1: in every reachable state, every slot key derived from an             *)
(* availability rule of capacity C (C >= 1) holds at least 0 and at most C  *)
(* appointments whose status is pending or confirmed.                       *)
(***************************************************************************)
C1_CapacityNeverExceeded ==
    \A r \in availabilities :
        r.capacity >= 1 =>
            \A k \in SlotKeys(r) :
                /\ ActiveCount(appointments, k) >= 0
                /\ ActiveCount(appointments, k) <= r.capacity

(***************************************************************************)
(* C2: once all N booking attempts for the same slot key of capacity C,     *)
(* 1 <= C < N, have finished, exactly C of them have booked an appointment  *)
(* and exactly N - C have returned SlotFullError.                           *)
(***************************************************************************)
C2_ParallelBookingOutcome ==
    \A r \in availabilities :
        \A k \in SlotKeys(r) :
            (/\ r.capacity >= 1
             /\ r.capacity < NumProcs
             /\ \A p \in Procs : pc[p] = "done" /\ request[p] = k)
            => /\ Cardinality({p \in Procs : response[p] = "SlotFullError"})
                      = NumProcs - r.capacity
               /\ ActiveCount(appointments, k) = r.capacity

(***************************************************************************)
(* C3: a booking attempt for a slot made right after the cancellation of an *)
(* active appointment of that slot, the slot having been full only because  *)
(* of that appointment, succeeds: the slot's active count is C again.       *)
(***************************************************************************)
C3_RebookAfterCancel ==
    [][\A p \in Procs : \A r \in availabilities :
          (/\ pc[p] = "idle"
           /\ pc'[p] = "done"
           /\ r.capacity >= 1
           /\ request'[p] \in SlotKeys(r)
           /\ result.op = "update_appointment"
           /\ result.outcome = "ok"
           /\ result.prev.status \in ActiveStatus
           /\ SlotKey(result.prev) = request'[p]
           /\ result.id \in DOMAIN appointments
           /\ appointments[result.id].status = "cancelled"
           /\ SlotKey(appointments[result.id]) = request'[p]
           /\ ActiveCount(appointments, request'[p]) = r.capacity - 1)
          => ActiveCount(appointments', request'[p]) = r.capacity]_vars

(***************************************************************************)
(* C4: cancelling an appointment that is already cancelled reports an       *)
(* already-cancelled condition and leaves the appointment and the active    *)
(* count of its slot as they were.                                          *)
(***************************************************************************)
C4_SecondCancelReported ==
    [][\A a \in DOMAIN appointments :
          (/\ appointments[a].status = "cancelled"
           /\ result' # result
           /\ result'.op = "update_appointment"
           /\ result'.id = a
           /\ result'.lower = appointments[a].start_at
           /\ result'.upper = appointments[a].end_at
           /\ a \in DOMAIN appointments'
           /\ appointments'[a].status = "cancelled")
          => /\ result'.outcome = "AlreadyCancelled"
             /\ appointments' = appointments
             /\ ActiveCount(appointments', SlotKey(appointments[a]))
                    = ActiveCount(appointments, SlotKey(appointments[a]))]_vars

(***************************************************************************)
(* C8: every booking attempt that has finished has ended with an            *)
(* Appointment for the requested slot or with a typed error.                *)
(***************************************************************************)
C8_AttemptEndsTyped ==
    \A p \in Procs :
        pc[p] = "done" =>
            \/ response[p] \in BookingErrors
            \/ \E a \in DOMAIN appointments :
                   /\ SlotKey(appointments[a]) = request[p]
                   /\ appointments[a].status \in ActiveStatus

(***************************************************************************)
(* C9: every stored Appointment has end_at > start_at; a create or update   *)
(* that would store end_at <= start_at is rejected, and a rejected          *)
(* operation leaves the stored records unchanged.                           *)
(***************************************************************************)
C9_EndAfterStart ==
    /\ [](\A a \in DOMAIN appointments : appointments[a].end_at > appointments[a].start_at)
    /\ []((/\ result.op \in {"create_appointment", "update_appointment"}
           /\ result.upper <= result.lower) => result.outcome = "IntegrityError")
    /\ [][result'.outcome = "IntegrityError" => appointments' = appointments]_vars

C9_Witness ==
    /\ result.op = "update_appointment"
    /\ result.outcome = "IntegrityError"
    /\ result.upper <= result.lower
    /\ Cardinality(DOMAIN appointments) = MaxAppts

(***************************************************************************)
(* C10: every stored availability rule has start_time < end_time.           *)
(***************************************************************************)
C10_RuleWindowNonEmpty ==
    \A r \in availabilities : r.start_time < r.end_time

(***************************************************************************)
(* C11: every stored Department, Doctor, Patient and Appointment refers to  *)
(* a Hospital that exists, and every Appointment and availability rule      *)
(* refers to a Doctor that exists; a step that deletes a Hospital leaves    *)
(* none of its departments, doctors, patients and appointments, a step that *)
(* deletes a Doctor leaves none of that doctor's availability rules and     *)
(* appointments; and a delete is refused only when a row that depends on    *)
(* the deleted rows was stored after the delete had collected them.         *)
(***************************************************************************)
ReferencesExist ==
    /\ \A d \in DOMAIN departments : departments[d] \in hospitals
    /\ \A d \in DOMAIN doctors : doctors[d] \in hospitals
    /\ \A p \in DOMAIN patients : patients[p] \in hospitals
    /\ \A a \in DOMAIN appointments :
           /\ appointments[a].hospital \in hospitals
           /\ appointments[a].doctor \in DOMAIN doctors
    /\ \A r \in availabilities : r.doctor \in DOMAIN doctors

HospitalDeleteCascades ==
    \A h \in hospitals :
        h \notin hospitals' =>
            /\ \A d \in DOMAIN departments : departments[d] = h => d \notin DOMAIN departments'
            /\ \A d \in DOMAIN doctors : doctors[d] = h => d \notin DOMAIN doctors'
            /\ \A p \in DOMAIN patients : patients[p] = h => p \notin DOMAIN patients'
            /\ \A a \in DOMAIN appointments :
                   appointments[a].hospital = h => a \notin DOMAIN appointments'

DoctorDeleteCascades ==
    \A d \in DOMAIN doctors :
        d \notin DOMAIN doctors' =>
            /\ \A a \in DOMAIN appointments :
                   appointments[a].doctor = d => a \notin DOMAIN appointments'
            /\ \A r \in availabilities : r.doctor = d => r \notin availabilities'

DeleteRefusedOnlyWhenStale ==
    \A q \in Deleters :
        (/\ collector[q].stage = "delete"
         /\ collector'[q].op = "none"
         /\ result'.outcome = "IntegrityError")
            => \/ ~(OfHospital(departments, collector[q].hs) \subseteq collector[q].deps)
               \/ ~(OfHospital(doctors, collector[q].hs) \subseteq collector[q].drs)
               \/ ~(OfHospital(patients, collector[q].hs) \subseteq collector[q].pts)
               \/ ~({a \in DOMAIN appointments :
                        appointments[a].department \in collector[q].deps}
                        \subseteq collector[q].apps)

C11_CascadeKeepsReferences ==
    /\ []ReferencesExist
    /\ [][HospitalDeleteCascades]_vars
    /\ [][DoctorDeleteCascades]_vars
    /\ [][DeleteRefusedOnlyWhenStale]_vars

C11_Witness ==
    /\ result.op = "delete_hospital"
    /\ result.outcome = "ok"
    /\ result.lower >= 6
    /\ hospitals # {}
    /\ DOMAIN doctors # {}
    /\ DOMAIN appointments = {}
====
